---- MODULE Spec2Model ----
(***************************************************************************)
(* A model of the PaddleOCR web service (src/app.py): the file validator, *)
(* the lazily initialised engines, the image and PDF adapters, the table  *)
(* reconstruction heuristic and the HTTP handlers with their scratch      *)
(* files.                                                                  *)
(*                                                                         *)
(* Text is modelled as a sequence of one-character strings, so that the   *)
(* string operations of the code (suffix, lower, strip, split, count) are *)
(* computed and not assumed.                                               *)
(***************************************************************************)
EXTENDS Integers, Sequences, FiniteSets, TLC

VARIABLES
    ocr_engine,            \* _ocr_engine: None or the instance
    structure_engine,      \* _structure_engine: None, False or the instance
    ocr_instances,         \* number of PaddleOCR objects constructed so far
    structure_instances,   \* number of PPStructureV3 objects constructed so far
    uploads,               \* the scratch paths that exist under UPLOAD_DIR
    tmp_files,             \* the per-page temporary images that exist
    next_id,               \* source of uuid4 values
    task,                  \* the handlers in flight, one per connection
    last,                  \* the last handler step: what it did and answered
    table_call,            \* one call of convert_to_table
    image_call             \* one call of process_image_ocr

vars == <<ocr_engine, structure_engine, ocr_instances, structure_instances,
          uploads, tmp_files, next_id, task, last, table_call, image_call>>

service_vars == <<ocr_engine, structure_engine, ocr_instances,
                  structure_instances, uploads, tmp_files, next_id, task, last>>

None == "None"

(***************************************************************************)
(* Text helpers: Python's str and re operations on character sequences.   *)
(***************************************************************************)

\* The characters str.strip() removes and \s matches, among those modelled.
Whitespace == {" ", "\t"}

IsSpace(c) == c \in Whitespace

RECURSIVE LStrip(_)
LStrip(s) ==
    IF s = <<>> THEN s
    ELSE IF IsSpace(Head(s)) THEN LStrip(Tail(s)) ELSE s

RECURSIVE RStrip(_)
RStrip(s) ==
    IF s = <<>> THEN s
    ELSE IF IsSpace(s[Len(s)]) THEN RStrip(SubSeq(s, 1, Len(s) - 1)) ELSE s

\* str.strip()
Strip(s) == RStrip(LStrip(s))

\* str.count(c) for a one-character c
CountChar(s, c) == Cardinality({i \in 1..Len(s) : s[i] = c})

\* The positions where a match of \s{2,} starts: a whitespace character that
\* begins a run of at least two.
RunStarts(s) ==
    {i \in 1..Len(s) :
        /\ IsSpace(s[i])
        /\ i < Len(s)
        /\ IsSpace(s[i + 1])
        /\ (i = 1 \/ ~IsSpace(s[i - 1]))}

\* len(re.findall(r'\s{2,}', s))
CountRuns(s) == Cardinality(RunStarts(s))

Min(S) == CHOOSE x \in S : \A y \in S : x <= y

Max(S) == CHOOSE x \in S : \A y \in S : x >= y

\* The last position of the whitespace run that starts at i.
RunEnd(s, i) == Max({j \in i..Len(s) : \A k \in i..j : IsSpace(s[k])})

\* str.split(c) for a one-character separator c
RECURSIVE SplitChar(_, _)
SplitChar(s, c) ==
    LET hits == {i \in 1..Len(s) : s[i] = c}
    IN  IF hits = {} THEN <<s>>
        ELSE LET i == Min(hits)
             IN  <<SubSeq(s, 1, i - 1)>> \o SplitChar(SubSeq(s, i + 1, Len(s)), c)

\* re.split(r'\s{2,}', s)
RECURSIVE SplitRuns(_)
SplitRuns(s) ==
    LET starts == RunStarts(s)
    IN  IF starts = {} THEN <<s>>
        ELSE LET i == Min(starts)
                 j == RunEnd(s, i)
             IN  <<SubSeq(s, 1, i - 1)>> \o SplitRuns(SubSeq(s, j + 1, Len(s)))

\* sep.join(parts)
RECURSIVE Join(_, _)
Join(parts, sep) ==
    IF parts = <<>> THEN <<>>
    ELSE IF Len(parts) = 1 THEN parts[1]
    ELSE parts[1] \o sep \o Join(Tail(parts), sep)

RECURSIVE Concat(_)
Concat(parts) == IF parts = <<>> THEN <<>> ELSE Head(parts) \o Concat(Tail(parts))

(***************************************************************************)
(* convert_to_table                                                        *)
(***************************************************************************)

NonEmpty(s) == s # <<>>

RECURSIVE SumSeq(_)
SumSeq(ns) == IF ns = <<>> THEN 0 ELSE Head(ns) + SumSeq(Tail(ns))

\* As DetectDelimiter, with "at least half" where the code has "more than half".
DetectDelimiterAtLeastHalf(lines) ==
    LET tab_count   == SumSeq([i \in 1..Len(lines) |-> CountChar(lines[i], "\t")])
        comma_count == SumSeq([i \in 1..Len(lines) |-> CountChar(lines[i], ",")])
    IN  IF 2 * tab_count >= Len(lines) THEN "\t"
        ELSE IF 2 * comma_count >= Len(lines) THEN ","
        ELSE "space"

\* The delimiter chosen by the 'auto' branch: "\t", "," or 'space'.
DetectDelimiter(lines) ==
    LET tab_count   == SumSeq([i \in 1..Len(lines) |-> CountChar(lines[i], "\t")])
        comma_count == SumSeq([i \in 1..Len(lines) |-> CountChar(lines[i], ",")])
        space_count == SumSeq([i \in 1..Len(lines) |-> CountRuns(lines[i])])
    IN  IF 2 * tab_count > Len(lines) THEN "\t"
        ELSE IF 2 * comma_count > Len(lines) THEN ","
        ELSE IF 10 * space_count > 3 * Len(lines) THEN "space"
        ELSE "space"

\* The cells of one line under the (resolved) delimiter, trimmed, empty ones dropped.
LineCells(line, delimiter) ==
    LET raw == IF delimiter = "space" THEN SplitRuns(Strip(line))
               ELSE IF delimiter = "tab" THEN SplitChar(line, "\t")
               ELSE IF delimiter = "comma" THEN SplitChar(line, ",")
               ELSE SplitChar(line, delimiter)
        trimmed == [i \in 1..Len(raw) |-> Strip(raw[i])]
    IN  SelectSeq(trimmed, NonEmpty)

\* As PadRow, stopping one cell short.
PadRowShort(row, max_cols) ==
    IF Len(row) + 1 < max_cols
    THEN row \o [i \in 1..(max_cols - 1 - Len(row)) |-> <<>>]
    ELSE row

\* while len(row) < max_cols: row.append("")
PadRow(row, max_cols) ==
    IF Len(row) < max_cols
    THEN row \o [i \in 1..(max_cols - Len(row)) |-> <<>>]
    ELSE row

\* csv.writer (excel dialect, QUOTE_MINIMAL): one field
CsvField(cell) ==
    IF \E i \in 1..Len(cell) : cell[i] \in {",", "\"", "\r", "\n"}
    THEN <<"\"">> \o cell \o <<"\"">>
    ELSE cell

\* csv.writer.writerow: a row that is one empty field is written as ""
CsvRow(row) ==
    (IF row = << <<>> >> THEN <<"\"", "\"">>
     ELSE Join([i \in 1..Len(row) |-> CsvField(row[i])], <<",">>))
    \o <<"\r", "\n">>

MdRow(row) == <<"|", " ">> \o Join(row, <<" ", "|", " ">>) \o <<" ", "|">>

MdDash == <<"-", "-", "-">>

\* return "", "", 0, 0 (with the locals delimiter and table_data at that point)
EmptyTable(delimiter) ==
    [csv_content |-> <<>>, markdown_table |-> <<>>, row_count |-> 0,
     col_count |-> 0, table_data |-> <<>>, delimiter |-> delimiter]

convert_to_table(texts, delimiter_arg) ==
    LET lines == SelectSeq(texts, NonEmpty)
    IN  IF lines = <<>> THEN EmptyTable(delimiter_arg)
        ELSE
        LET delimiter == IF delimiter_arg = "auto" THEN DetectDelimiter(lines)
                         ELSE delimiter_arg
            all_cells == [i \in 1..Len(lines) |-> LineCells(lines[i], delimiter)]
            found == SelectSeq(all_cells, NonEmpty)
        IN  IF found = <<>> THEN EmptyTable(delimiter)
            ELSE
            LET max_cols == Max({Len(found[i]) : i \in 1..Len(found)})
                table_data == [i \in 1..Len(found) |-> PadRow(found[i], max_cols)]
                md_lines == <<MdRow(table_data[1]),
                              MdRow([i \in 1..max_cols |-> MdDash])>>
                            \o [i \in 1..(Len(table_data) - 1) |-> MdRow(table_data[i + 1])]
            IN  [csv_content |-> Concat([i \in 1..Len(table_data) |-> CsvRow(table_data[i])]),
                 markdown_table |-> Join(md_lines, <<"\n">>),
                 row_count |-> Len(table_data),
                 col_count |-> max_cols,
                 table_data |-> table_data,
                 delimiter |-> delimiter]

(***************************************************************************)
(* Calls of convert_to_table on bounded inputs.                            *)
(***************************************************************************)

MaxLines == 2

Alphabet == {"a", "\t", ",", " "}

\* Every line of at most one character, and longer ones that split into
\* several cells, hold inner and outer whitespace, or hold only separators.
LinePool ==
    {<<>>} \cup {<<c>> : c \in Alphabet}
    \cup { <<"a", " ", " ", "a">>, <<"a", "\t", "a">>, <<"a", ",", "a">>,
           <<"a", ",", "a", ",", "a">>, <<"a", "\t", "a", "\t", "a">>,
           <<"a", " ", "a">>, <<" ", "a", " ", "\t", "a", " ">>,
           <<"a", ",", " ", "\t", "a">>, <<"a", "\t", ",", "a">>,
           <<",", "\t">>, <<" ", " ">> }

SeqsUpTo(S, n) == UNION {[1..k -> S] : k \in 0..n}

\* ["Name\tAge\tCity", "Alice\t30\tNYC", "Bob\t25\tLA"]
Scenario ==
    << <<"N","a","m","e","\t","A","g","e","\t","C","i","t","y">>,
       <<"A","l","i","c","e","\t","3","0","\t","N","Y","C">>,
       <<"B","o","b","\t","2","5","\t","L","A">> >>

TableInputs == SeqsUpTo(LinePool, MaxLines) \cup {Scenario}

\* 'auto', the three keywords, and a literal one-character delimiter.
Delimiters == {"auto", "tab", "comma", "space", "a"}

TableIdle == [pc |-> "idle"]

ImageIdle == [pc |-> "idle"]

TableInit ==
    \E texts \in TableInputs :
        table_call = [pc |-> "call", texts |-> texts, delimiter |-> None,
                      out |-> None]

Convert ==
    /\ table_call.pc = "call"
    /\ \E d \in Delimiters :
         table_call' = [table_call EXCEPT !.pc = "return", !.delimiter = d,
                            !.out = convert_to_table(table_call.texts, d)]
    /\ UNCHANGED <<service_vars, image_call>>

(***************************************************************************)
(* validate_file                                                           *)
(***************************************************************************)

ALLOWED_IMAGE_EXTENSIONS ==
    { <<".", "p", "n", "g">>, <<".", "j", "p", "g">>, <<".", "j", "p", "e", "g">>,
      <<".", "b", "m", "p">>, <<".", "g", "i", "f">>, <<".", "w", "e", "b", "p">>,
      <<".", "t", "i", "f", "f">>, <<".", "t", "i", "f">> }

ALLOWED_PDF_EXTENSIONS == { <<".", "p", "d", "f">> }

ALLOWED_EXTENSIONS == ALLOWED_IMAGE_EXTENSIONS \cup ALLOWED_PDF_EXTENSIONS

\* str.lower() on the upper-case letters the modelled file names use
LowerChar(c) ==
    CASE c = "P" -> "p" [] c = "N" -> "n" [] c = "G" -> "g" [] c = "D" -> "d"
      [] c = "F" -> "f" [] c = "J" -> "j" [] c = "E" -> "e" [] c = "X" -> "x"
      [] OTHER -> c

Lower(s) == [i \in 1..Len(s) |-> LowerChar(s[i])]

\* PurePath.suffix of a name without directory part: from the last dot on,
\* unless that dot is the first or the last character.
Suffix(name) ==
    LET dots == {i \in 1..Len(name) : name[i] = "."}
    IN  IF dots = {} THEN <<>>
        ELSE LET i == Max(dots)
             IN  IF 1 < i /\ i < Len(name) THEN SubSeq(name, i, Len(name)) ELSE <<>>

\* The two rejection messages; the second one quotes the extension.
NoFilenameMessage == [kind |-> "no_filename", ext |-> <<>>]

UnsupportedMessage(ext) == [kind |-> "unsupported_format", ext |-> ext]

\* As validate_file, comparing the extension as written.
validate_file_case_sensitive(filename) ==
    IF filename = <<>> THEN [valid |-> FALSE, ext |-> <<>>, message |-> NoFilenameMessage]
    ELSE LET ext == Suffix(filename)
         IN  IF ext \notin ALLOWED_EXTENSIONS
             THEN [valid |-> FALSE, ext |-> <<>>, message |-> UnsupportedMessage(ext)]
             ELSE [valid |-> TRUE, ext |-> ext, message |-> NoFilenameMessage]

\* (valid, result): result is the extension when valid, the message otherwise.
validate_file(filename) ==
    IF filename = <<>> THEN [valid |-> FALSE, ext |-> <<>>, message |-> NoFilenameMessage]
    ELSE LET ext == Lower(Suffix(filename))
         IN  IF ext \notin ALLOWED_EXTENSIONS
             THEN [valid |-> FALSE, ext |-> <<>>, message |-> UnsupportedMessage(ext)]
             ELSE [valid |-> TRUE, ext |-> ext, message |-> NoFilenameMessage]

(***************************************************************************)
(* process_image_ocr: the normalisation of the engine's result records.    *)
(* Scores are in hundredths (100 is 1.0).  A record of the engine is       *)
(*   [shape, texts, scores, polys]; scores and polys are <<>> when the     *)
(* attribute or key is absent and <<array>> when present.                  *)
(***************************************************************************)

DefaultScore == 100

EmptyBox == [np |-> FALSE, pts |-> <<>>]

\* bbox.tolist() if hasattr(bbox, 'tolist') else (list(bbox) if bbox else [])
BoxList(bbox) == bbox.pts

\* float(score) if score else 1.0
Confidence(score) == IF score # 0 THEN score ELSE DefaultScore

\* scores[i] if i < len(scores) else 1.0
ScoreAt(scores, i) == IF i <= Len(scores) THEN scores[i] ELSE DefaultScore

\* boxes[i] if i < len(boxes) else []
BoxAt(boxes, i) == IF i <= Len(boxes) THEN boxes[i] ELSE EmptyBox

\* The texts, scores and boxes arrays extracted from one record (methods 1 to 5).
Extract(res) ==
    IF res.shape \in {"rec_attr", "rec_dict"}
    THEN [texts |-> res.texts,
          scores |-> IF res.scores = <<>>
                     THEN [i \in 1..Len(res.texts) |-> DefaultScore]
                     ELSE res.scores[1],
          boxes |-> IF res.polys = <<>>
                    THEN [i \in 1..Len(res.texts) |-> EmptyBox]
                    ELSE res.polys[1]]
    ELSE IF res.shape \in {"text_attr", "text_dict"}
    THEN [texts |-> res.texts,
          scores |-> IF res.scores = <<>> THEN <<DefaultScore>> ELSE res.scores[1],
          boxes |-> IF res.polys = <<>> THEN <<EmptyBox>> ELSE res.polys[1]]
    ELSE [texts |-> <<>>, scores |-> <<>>, boxes |-> <<>>]

RECURSIVE ItemsFrom(_, _)
ItemsFrom(x, i) ==
    IF i > Len(x.texts) THEN <<>>
    ELSE (IF x.texts[i] # <<>>
          THEN << [text |-> x.texts[i],
                   confidence |-> Confidence(ScoreAt(x.scores, i)),
                   bbox |-> BoxList(BoxAt(x.boxes, i))] >>
          ELSE <<>>)
         \o ItemsFrom(x, i + 1)

\* The list process_image_ocr returns for the engine's result.
NormalizeResult(result) ==
    Concat([k \in 1..Len(result) |-> ItemsFrom(Extract(result[k]), 1)])

(***************************************************************************)
(* Calls of the normalisation on bounded engine results.                   *)
(***************************************************************************)

MaxTexts == 2

Texts == {<<>>, <<"a">>, <<"b">>}

Scores == {0, 50}

Quad == << <<0, 0>>, <<1, 1>> >>

Boxes == {EmptyBox, [np |-> TRUE, pts |-> Quad], [np |-> FALSE, pts |-> Quad]}

Optional(S) == {<<>>} \cup {<<x>> : x \in S}

RecRecords ==
    [shape : {"rec_attr", "rec_dict"},
     texts : SeqsUpTo(Texts, MaxTexts),
     scores : Optional(SeqsUpTo(Scores, MaxTexts)),
     polys : Optional(SeqsUpTo(Boxes, MaxTexts))]

\* A record with a singular text, score and box.
TextRecords ==
    [shape : {"text_attr", "text_dict"},
     texts : {<<t>> : t \in Texts},
     scores : Optional({<<x>> : x \in Scores}),
     polys : Optional({<<b>> : b \in Boxes})]

\* A record none of the five methods reads anything from.
OtherRecord == [shape |-> "other", texts |-> <<>>, scores |-> <<>>, polys |-> <<>>]

SampleRecord ==
    [shape |-> "rec_dict", texts |-> << <<"a">>, <<>>, <<"b">> >>,
     scores |-> << <<50, 100>> >>, polys |-> <<>>]

\* One record, or one record followed by a fixed second one.
EngineResults ==
    LET one == RecRecords \cup TextRecords \cup {OtherRecord}
    IN  {<<>>} \cup {<<r>> : r \in one} \cup {<<r, SampleRecord>> : r \in one}

ImageInit ==
    \E result \in EngineResults :
        image_call = [pc |-> "call", result |-> result, out |-> <<>>]

Normalize ==
    /\ image_call.pc = "call"
    /\ image_call' = [image_call EXCEPT !.pc = "return",
                          !.out = NormalizeResult(image_call.result)]
    /\ UNCHANGED <<service_vars, table_call>>

(***************************************************************************)
(* The service: engines, scratch files and handlers.                       *)
(*                                                                         *)
(* Every handler is a coroutine on one event loop.  A handler runs without *)
(* interruption from one await to the next, so a file request has two      *)
(* steps: up to `await file.read()`, and from there to its end (the except *)
(* and finally blocks included).  What the environment decides in a step   *)
(* (an I/O error, what the engine returns) is drawn into a record env.     *)
(***************************************************************************)

EngineNone == 0       \* _ocr_engine = None, _structure_engine = None

EngineFalse == -1     \* _structure_engine = False

MaxIds == 2           \* file requests that pass validation, over a run

MaxBatch == 3         \* files in one batch request

MaxPages == 2         \* pages of a PDF

Tasks == {"t1", "t2"}

\* What one handler did, kept for stating the properties.
EmptyTrace ==
    [ocr_used |-> {}, structure_used |-> {}, ocr_init_failed |-> FALSE,
     structure_init_failed |-> FALSE, built |-> {}, routes |-> {},
     tmp_created |-> {}, written |-> {}, deleted |-> {}]

\* The globals a handler reads and writes, with the trace of the running step.
World ==
    [ocr_engine |-> ocr_engine, structure_engine |-> structure_engine,
     ocr_instances |-> ocr_instances, structure_instances |-> structure_instances,
     uploads |-> uploads, tmp_files |-> tmp_files, trace |-> EmptyTrace]

Raise(w, exc) == [w |-> w, exc |-> exc, value |-> <<>>]

Return(w, value) == [w |-> w, exc |-> None, value |-> value]

\* As get_ocr_engine, without the `is None` test.
get_ocr_engine_always_new(w, init) ==
    IF init = "ok"
    THEN LET inst == w.ocr_instances + 1
         IN  Return([w EXCEPT !.ocr_engine = inst, !.ocr_instances = inst,
                              !.trace.ocr_used = @ \cup {inst},
                              !.trace.built = @ \cup {"ocr"}], inst)
    ELSE Raise([w EXCEPT !.trace.ocr_init_failed = TRUE], "OcrInitError")

get_ocr_engine(w, init) ==
    IF w.ocr_engine = EngineNone
    THEN IF init = "ok"
         THEN LET inst == w.ocr_instances + 1
              IN  Return([w EXCEPT !.ocr_engine = inst, !.ocr_instances = inst,
                                   !.trace.ocr_used = @ \cup {inst},
                                   !.trace.built = @ \cup {"ocr"}], inst)
         ELSE Raise([w EXCEPT !.trace.ocr_init_failed = TRUE], "OcrInitError")
    ELSE Return([w EXCEPT !.trace.ocr_used = @ \cup {w.ocr_engine}], w.ocr_engine)

\* init: "ok", "import_error" (the only exception caught) or "error".
get_structure_engine(w, init) ==
    IF w.structure_engine = EngineNone
    THEN IF init = "ok"
         THEN LET inst == w.structure_instances + 1
              IN  Return([w EXCEPT !.structure_engine = inst,
                                   !.structure_instances = inst,
                                   !.trace.structure_used = @ \cup {inst},
                                   !.trace.built = @ \cup {"structure"}], inst)
         ELSE IF init = "import_error"
         THEN Return([w EXCEPT !.structure_engine = EngineFalse,
                               !.trace.structure_init_failed = TRUE], EngineFalse)
         ELSE Raise([w EXCEPT !.trace.structure_init_failed = TRUE],
                    "StructureInitError")
    ELSE Return([w EXCEPT !.trace.structure_used =
                              @ \cup ({w.structure_engine} \ {EngineFalse})],
                w.structure_engine)

\* result = ocr.predict(image_path) and the normalisation, with the engine g.
Predict(g, env) ==
    IF g.exc # None THEN g
    ELSE IF env.predict = "fail" THEN Raise(g.w, "PredictError")
    ELSE Return(g.w, NormalizeResult(env.result))

process_image_ocr(w, env) == Predict(get_ocr_engine(w, env.ocr_init), env)

\* The items of the structure engine's records: text_contents, where present.
StructureItems(result) ==
    Concat([k \in 1..Len(result) |->
              [i \in 1..Len(result[k]) |->
                 [text |-> result[k][i], confidence |-> DefaultScore, bbox |-> <<>>]]])

\* for r in page_results: r['page'] = i + 1
TagPage(items, page) ==
    [k \in 1..Len(items) |->
        [text |-> items[k].text, confidence |-> items[k].confidence,
         bbox |-> items[k].bbox, page |-> page]]

\* The loop over the rasterised pages, from page i on.
\* tempfile.NamedTemporaryFile(suffix='.png', delete=False): a fresh name,
\* here the PDF's path and the page.
TmpName(pdf_path, i) == <<pdf_path, i>>

\* What the environment decides for page i.
PageEnv(env, i) ==
    [env EXCEPT !.predict = IF env.fail_page = i /\ env.fail_kind = "predict"
                            THEN "fail" ELSE "ok"]

RECURSIVE FallbackPages(_, _, _, _, _)

\* page_results = process_image_ocr(tmp.name) returned r: tag the items,
\* os.unlink(tmp.name), next page.  An exception leaves the loop at once.
PageDone(r, tmp, pdf_path, i, env, all_results) ==
    IF r.exc # None THEN r
    ELSE FallbackPages([r.w EXCEPT !.tmp_files = @ \ {tmp}], pdf_path,
                       i + 1, env, all_results \o TagPage(r.value, i))

\* img.save(tmp.name, 'PNG') and the recognition of the page; tmp exists.
PageSaved(w, tmp, pdf_path, i, env, all_results) ==
    IF env.fail_page = i /\ env.fail_kind = "save" THEN Raise(w, "SaveError")
    ELSE PageDone(process_image_ocr(w, PageEnv(env, i)), tmp, pdf_path, i, env,
                  all_results)

FallbackPages(w, pdf_path, i, env, all_results) ==
    IF i > env.pages THEN Return(w, all_results)
    ELSE PageSaved([w EXCEPT !.tmp_files = @ \cup {TmpName(pdf_path, i)},
                             !.trace.tmp_created = @ \cup {TmpName(pdf_path, i)}],
                   TmpName(pdf_path, i), pdf_path, i, env, all_results)

\* if structure_engine: result = structure_engine.predict(pdf_path) ...
StructureRoute(w, env) ==
    IF env.structure_predict = "fail" THEN Raise(w, "StructurePredictError")
    ELSE Return(w, StructureItems(env.structure_result))

\* else: convert_from_path and the loop over the pages
FallbackRoute(w, pdf_path, env) ==
    IF env.pdf2image = "import_error" THEN Raise(w, "Pdf2ImageMissing")
    ELSE IF env.pdf2image = "fail" THEN Raise(w, "PdfConvertError")
    ELSE FallbackPages(w, pdf_path, 1, env, <<>>)

\* process_pdf_ocr once get_structure_engine() has answered g.
RoutePdf(g, pdf_path, env) ==
    IF g.exc # None THEN g
    ELSE IF g.value # EngineNone /\ g.value # EngineFalse
    THEN StructureRoute([g.w EXCEPT !.trace.routes = @ \cup {"structure"}], env)
    ELSE FallbackRoute([g.w EXCEPT !.trace.routes = @ \cup {"fallback"}], pdf_path, env)

process_pdf_ocr(w, pdf_path, env) ==
    RoutePdf(get_structure_engine(w, env.structure_init), pdf_path, env)

(***************************************************************************)
(* Responses                                                               *)
(***************************************************************************)

NoResponse == [status |-> 0, body |-> <<>>, detail |-> <<>>]

Ok(body) == [status |-> 200, body |-> <<body>>, detail |-> <<>>]

\* raise HTTPException(status_code=status, detail=detail)
HttpError(status, detail) == [status |-> status, body |-> <<>>, detail |-> <<detail>>]

\* detail=f"OCR 處理失敗: {str(e)}" and detail=f"表格轉換失敗: {str(e)}"
FailureDetail(endpoint, exc) ==
    [kind |-> IF endpoint = "table" THEN "table_failed" ELSE "ocr_failed",
     ext |-> <<>>, cause |-> exc]

ValidationDetail(message) == [kind |-> message.kind, ext |-> message.ext, cause |-> None]

OcrBody(filename, file_type, items) ==
    [success |-> TRUE, filename |-> filename, file_type |-> file_type,
     results |-> [k \in 1..Len(items) |->
                    [text |-> items[k].text, confidence |-> items[k].confidence,
                     bbox |-> items[k].bbox]],
     full_text |-> Join([k \in 1..Len(items) |-> items[k].text], <<"\n">>)]

\* TableResponse(success=True, csv_content=..., ...) from the tuple t
TableResponse(t) ==
    [success |-> TRUE, csv_content |-> t.csv_content,
     markdown_table |-> t.markdown_table, row_count |-> t.row_count,
     col_count |-> t.col_count]

TableBody(items) ==
    TableResponse(convert_to_table([k \in 1..Len(items) |-> items[k].text], "auto"))

(***************************************************************************)
(* ocr_recognize and ocr_to_table                                          *)
(***************************************************************************)

\* As Uuid4, with an id that is not unique.
Uuid4Fixed(n) == 1

\* str(uuid.uuid4()): a value no earlier call returned.
Uuid4(n) == n

\* UPLOAD_DIR / f"{file_id}{file_ext}"
TempPath(file_id, file_ext) == <<file_id, file_ext>>

\* As Cleanup, leaving the file.
CleanupNothing(files, temp_path) == files

\* finally: if temp_path.exists(): temp_path.unlink()
Cleanup(files, temp_path) == files \ {temp_path}

\* The try block, from the resumption after `await file.read()`.
\* The response built from the recognition's outcome r.
Respond(r, endpoint, filename, is_pdf, env) ==
    IF r.exc # None THEN r
    ELSE IF endpoint = "table" THEN Return(r.w, TableBody(r.value))
    ELSE IF env.respond = "fail" THEN Raise(r.w, "ResponseError")
    ELSE Return(r.w, OcrBody(filename, IF is_pdf THEN "pdf" ELSE "image", r.value))

\* f.write(content) into the opened file, then the recognition.
Recognize(w, endpoint, filename, temp_path, is_pdf, env) ==
    IF env.write = "fail_write" THEN Raise(w, "WriteError")
    ELSE Respond(IF is_pdf THEN process_pdf_ocr(w, temp_path, env)
                 ELSE process_image_ocr(w, env),
                 endpoint, filename, is_pdf, env)

TryBlock(w, endpoint, filename, temp_path, is_pdf, env) ==
    IF env.read = "fail" THEN Raise(w, "ReadError")
    ELSE IF env.write = "fail_open" THEN Raise(w, "WriteError")
    ELSE Recognize([w EXCEPT !.uploads = @ \cup {temp_path},
                             !.trace.written = @ \cup {temp_path}],
                   endpoint, filename, temp_path, is_pdf, env)

\* except Exception: 500; finally: the clean-up; t is the try block's outcome.
Finally(t, endpoint, temp_path) ==
    [w |-> [t.w EXCEPT !.uploads = Cleanup(@, temp_path),
                       !.trace.deleted = @ \cup (t.w.uploads \ Cleanup(t.w.uploads, temp_path))],
     response |-> IF t.exc = None THEN Ok(t.value)
                  ELSE HttpError(500, FailureDetail(endpoint, t.exc))]

\* The handler from the resumption to its end: try, except Exception, finally.
HandlerBody(w, endpoint, filename, file_id, file_ext, env) ==
    Finally(TryBlock(w, endpoint, filename, TempPath(file_id, file_ext),
                     file_ext \in ALLOWED_PDF_EXTENSIONS, env),
            endpoint, TempPath(file_id, file_ext))

(***************************************************************************)
(* ocr_batch                                                               *)
(***************************************************************************)

\* The entry appended for one file: the try, except HTTPException and except
\* Exception branches of the loop body.
BatchEntry(filename, response) ==
    IF response.status = 200
    THEN [filename |-> filename, success |-> TRUE, data |-> response.body,
          error |-> <<>>]
    ELSE [filename |-> filename, success |-> FALSE, data |-> <<>>,
          error |-> response.detail]

\* As Processed, counting every entry.
ProcessedAll(results) == Len(results)

\* len([r for r in results if r["success"]])
Processed(results) == Cardinality({i \in 1..Len(results) : results[i].success})

BatchResponse(files, results) ==
    Ok([success |-> TRUE, total |-> Len(files), processed |-> Processed(results),
        results |-> results])

\* The loop from file idx on, up to the next `await file.read()` or the end:
\* a file that fails validation gets its entry without any await.
RECURSIVE BatchAdvance(_, _, _)

\* File idx after validate_file answered v.
BatchValidated(files, idx, results, v) ==
    IF v.valid
    THEN [idx |-> idx, results |-> results, awaiting |-> TRUE, ext |-> v.ext]
    ELSE BatchAdvance(files, idx + 1,
             results \o <<BatchEntry(files[idx],
                             HttpError(400, ValidationDetail(v.message)))>>)

BatchAdvance(files, idx, results) ==
    IF idx > Len(files)
    THEN [idx |-> idx, results |-> results, awaiting |-> FALSE, ext |-> <<>>]
    ELSE BatchValidated(files, idx, results, validate_file(files[idx]))

(***************************************************************************)
(* The environment of one step, and the requests the clients send.         *)
(***************************************************************************)

\* What the OCR engine's predict returns for an upload or a page.
ScanResult == <<SampleRecord>>

\* What the structure engine's predict returns: text_contents per record.
DocResult == << << <<"a">>, <<"b">> >>, <<>> >>

Env0 ==
    [read |-> "ok", write |-> "ok", ocr_init |-> "ok", predict |-> "ok",
     result |-> ScanResult, respond |-> "ok", structure_init |-> "ok",
     structure_predict |-> "ok", structure_result |-> DocResult,
     pdf2image |-> "ok", pages |-> 1, fail_page |-> 0, fail_kind |-> "save"]

UploadEnvs ==
    { [Env0 EXCEPT !.read = "fail"], [Env0 EXCEPT !.write = "fail_open"],
      [Env0 EXCEPT !.write = "fail_write"] }

ImageEnvs ==
    UploadEnvs
    \cup { Env0, [Env0 EXCEPT !.ocr_init = "fail"], [Env0 EXCEPT !.predict = "fail"],
           [Env0 EXCEPT !.respond = "fail"] }

StructureEnvs ==
    { Env0, [Env0 EXCEPT !.structure_predict = "fail"], [Env0 EXCEPT !.respond = "fail"] }

FallbackEnvs ==
    { [Env0 EXCEPT !.pdf2image = "import_error"], [Env0 EXCEPT !.pdf2image = "fail"],
      [Env0 EXCEPT !.ocr_init = "fail"] }
    \cup { [Env0 EXCEPT !.pages = p] : p \in 1..MaxPages }
    \cup { [Env0 EXCEPT !.pages = p[1], !.fail_page = p[2], !.fail_kind = k] :
              p \in {q \in (1..MaxPages) \X (1..MaxPages) : q[2] <= q[1]},
              k \in {"save", "predict"} }

\* The environments that differ for a step started with the globals in w: an
\* engine that is already loaded is not initialised again.
ImageEnvsIn(w) ==
    {e \in ImageEnvs : e.ocr_init = "ok" \/ w.ocr_engine = EngineNone}

PdfEnvsIn(w) ==
    UploadEnvs
    \cup (IF w.structure_engine = EngineNone
          THEN { [Env0 EXCEPT !.structure_init = "error"] }
               \cup StructureEnvs
               \cup { [e EXCEPT !.structure_init = "import_error"] : e \in FallbackEnvs }
          ELSE IF w.structure_engine = EngineFalse THEN FallbackEnvs
          ELSE StructureEnvs)

EnvsFor(file_ext, w) ==
    IF file_ext \in ALLOWED_PDF_EXTENSIONS
    THEN {e \in PdfEnvsIn(w) : e.ocr_init = "ok" \/ w.ocr_engine = EngineNone}
    ELSE ImageEnvsIn(w)

\* Names with and without an allowed extension, in either case, with the dot
\* first or last, and the empty name.
FileNames ==
    { <<>>, <<"a">>, <<"a", ".", "p", "n", "g">>, <<"a", ".", "P", "N", "G">>,
      <<"a", ".", "p", "d", "f">>, <<"a", ".", "e", "x", "e">>,
      <<".", "p", "n", "g">>, <<"a", ".", "p", "n", "g", ".">>,
      <<"a", ".", "p", "n", "g", ".", "e", "x", "e">> }

\* An image, a PDF and a rejected file.
CoreNames ==
    { <<"a", ".", "p", "n", "g">>, <<"a", ".", "p", "d", "f">>,
      <<"a", ".", "e", "x", "e">> }

ImageNames == { <<"a", ".", "p", "n", "g">> }

\* The files of a batch: an image and a rejected file.
BatchNames == { <<"a", ".", "p", "n", "g">>, <<"a", ".", "e", "x", "e">> }

BatchUploads == SeqsUpTo(BatchNames, MaxBatch) \ {<<>>}

ValidCount(files) ==
    Cardinality({i \in 1..Len(files) : validate_file(files[i]).valid})

(***************************************************************************)
(* Handlers                                                                *)
(***************************************************************************)

\* The locals of a handler suspended in `await file.read()`.
IdleTask ==
    [pc |-> "idle", endpoint |-> None, files |-> <<>>, idx |-> 0, file_id |-> 0,
     file_ext |-> <<>>, results |-> <<>>]

\* What a handler step did: the request, the scratch path it finished with
\* (<<>> when none), the trace and the response (NoResponse while a batch
\* goes on).
Step(endpoint, files, path, trace, response) ==
    [endpoint |-> endpoint, files |-> files, path |-> path,
     trace |-> trace, response |-> response]

ServiceInit ==
    /\ ocr_engine = EngineNone
    /\ structure_engine = EngineNone
    /\ ocr_instances = 0
    /\ structure_instances = 0
    /\ uploads = {}
    /\ tmp_files = {}
    /\ next_id = 1
    /\ task = [t \in Tasks |-> IdleTask]
    /\ last = Step(None, <<>>, <<>>, EmptyTrace, NoResponse)

SetWorld(w) ==
    /\ ocr_engine' = w.ocr_engine
    /\ structure_engine' = w.structure_engine
    /\ ocr_instances' = w.ocr_instances
    /\ structure_instances' = w.structure_instances
    /\ uploads' = w.uploads
    /\ tmp_files' = w.tmp_files

world_vars == <<ocr_engine, structure_engine, ocr_instances, structure_instances,
                uploads, tmp_files>>

\* /api/health: an engine that cannot be initialised is reported, not raised.
HealthCheck ==
    \E init \in {"ok", "fail"} :
        LET g == get_ocr_engine(World, init)
        IN  /\ SetWorld(g.w)
            /\ last' = Step("health", <<>>, <<>>, g.w.trace,
                            Ok([status |-> "healthy", ocr_ready |-> g.exc = None]))
            /\ UNCHANGED <<next_id, task, table_call, image_call>>

\* /api/ocr and /api/ocr/table, up to `await file.read()`.
\* The request once validate_file answered v: a 400, or the handler goes on
\* to the read under a fresh file_id.
Validated(t, endpoint, filename, v, max_ids) ==
    IF ~v.valid
    THEN /\ last' = Step(endpoint, <<filename>>, <<>>, EmptyTrace,
                         HttpError(400, ValidationDetail(v.message)))
         /\ UNCHANGED <<task, next_id>>
    ELSE /\ next_id <= max_ids
         /\ task' = [task EXCEPT ![t] =
               [IdleTask EXCEPT !.pc = "await_read", !.endpoint = endpoint,
                    !.files = <<filename>>, !.idx = 1,
                    !.file_id = Uuid4(next_id), !.file_ext = v.ext]]
         /\ next_id' = next_id + 1
         /\ UNCHANGED last

StartRequest(t, names, max_ids) ==
    /\ task[t].pc = "idle"
    /\ \E endpoint \in {"ocr", "table"}, filename \in names :
         Validated(t, endpoint, filename, validate_file(filename), max_ids)
    /\ UNCHANGED <<world_vars, table_call, image_call>>

\* The batch handler after BatchAdvance stopped at a: suspended in the next
\* file's read, or returning its response.
BatchContinue(t, files, a, path, trace) ==
    IF a.awaiting
    THEN /\ task' = [task EXCEPT ![t] =
               [pc |-> "await_read", endpoint |-> "batch", files |-> files,
                idx |-> a.idx, file_id |-> Uuid4(next_id), file_ext |-> a.ext,
                results |-> a.results]]
         /\ next_id' = next_id + 1
         /\ last' = Step("batch", files, path, trace, NoResponse)
    ELSE /\ task' = [task EXCEPT ![t] = IdleTask]
         /\ UNCHANGED next_id
         /\ last' = Step("batch", files, path, trace,
                         BatchResponse(files, a.results))

\* /api/ocr/batch, up to the first `await file.read()` (or to the end).
StartBatch(t, batches, max_ids) ==
    /\ task[t].pc = "idle"
    /\ \E files \in batches :
         /\ next_id + ValidCount(files) - 1 <= max_ids
         /\ BatchContinue(t, files, BatchAdvance(files, 1, <<>>), <<>>, EmptyTrace)
    /\ UNCHANGED <<world_vars, table_call, image_call>>

\* A file handler, from the resumption after `await file.read()` to its end;
\* in a batch, on to the next await of the loop.
\* The handler me of task t ended its file with r: the response, or the
\* batch's next file.
Finished(t, me, r) ==
    /\ SetWorld(r.w)
    /\ IF me.endpoint = "batch"
       THEN BatchContinue(t, me.files,
               BatchAdvance(me.files, me.idx + 1,
                   me.results \o <<BatchEntry(me.files[me.idx], r.response)>>),
               <<TempPath(me.file_id, me.file_ext)>>, r.w.trace)
       ELSE /\ task' = [task EXCEPT ![t] = IdleTask]
            /\ last' = Step(me.endpoint, me.files, <<TempPath(me.file_id, me.file_ext)>>,
                            r.w.trace, r.response)
            /\ UNCHANGED next_id

Resume(t) ==
    /\ task[t].pc = "await_read"
    /\ \E env \in EnvsFor(task[t].file_ext, World) :
         Finished(t, task[t],
                  HandlerBody(World,
                              IF task[t].endpoint = "batch" THEN "ocr" ELSE task[t].endpoint,
                              task[t].files[task[t].idx], task[t].file_id,
                              task[t].file_ext, env))
    /\ UNCHANGED <<table_call, image_call>>

\* Two connections sending file requests, and health checks.
Next ==
    \/ HealthCheck
    \/ \E t \in Tasks : StartRequest(t, CoreNames, MaxIds)
    \/ \E t \in Tasks : Resume(t)

\* One connection sending batches, the other images.
NextBatch ==
    \/ StartBatch("t1", BatchUploads, MaxBatch)
    \/ StartRequest("t2", ImageNames, MaxIds)
    \/ \E t \in Tasks : Resume(t)

\* One connection sending file requests under every modelled name.
NextUpload ==
    \/ StartRequest("t1", FileNames, MaxIds)
    \/ Resume("t1")

Init == ServiceInit /\ table_call = TableIdle /\ image_call = ImageIdle

Spec == Init /\ [][Next]_vars

SpecBatch == Init /\ [][NextBatch]_vars

SpecUpload == Init /\ [][NextUpload]_vars

InitTable == ServiceInit /\ TableInit /\ image_call = ImageIdle

SpecTable == InitTable /\ [][Convert]_vars

InitImage == ServiceInit /\ ImageInit /\ table_call = TableIdle

SpecImage == InitImage /\ [][Normalize]_vars

(***************************************************************************)
(* Properties                                                              *)
(***************************************************************************)

InFlight(t) == task[t].pc = "await_read"

PathOf(t) == TempPath(task[t].file_id, task[t].file_ext)

Touched(step) == step.trace.written \cup step.trace.deleted

IsFileStep(step) == step.endpoint \in {"ocr", "table", "batch"} /\ step.path # <<>>

\* C1: once a file request that passed validation has finished, in whichever
\* way, the scratch file written under its id does not exist: the only paths
\* that may exist under UPLOAD_DIR belong to requests still in flight, and the
\* path of the step that just ended is not among them.
C1_ScratchFileRemoved ==
    /\ \A p \in uploads : \E t \in Tasks : InFlight(t) /\ PathOf(t) = p
    /\ IsFileStep(last) => last.path[1] \notin uploads

\* A request that wrote its scratch file, failed with a 500, and left no file.
C1_Witness ==
    /\ last.endpoint \in {"ocr", "table"}
    /\ last.response.status = 500
    /\ last.response.detail[1].cause = "PredictError"
    /\ last.trace.written = {last.path[1]}
    /\ last.trace.deleted = {last.path[1]}
    /\ last.path[1] \notin uploads

\* The extension the claim speaks of: the lower-cased suffix of the name.
ExtensionOf(filename) == Lower(Suffix(filename))

Rejected(step) == step.endpoint \in {"ocr", "table"} /\ step.response.status = 400

\* C2 as stated: every name whose extension is allowed passes validation with
\* that extension, and every other name is answered with a 400 whose message
\* names the rejected extension.
C2_Original ==
    /\ \A t \in Tasks : InFlight(t) =>
          /\ ExtensionOf(task[t].files[1]) \in ALLOWED_EXTENSIONS
          /\ task[t].file_ext = ExtensionOf(task[t].files[1])
    /\ Rejected(last) =>
          /\ ExtensionOf(last.files[1]) \notin ALLOWED_EXTENSIONS
          /\ last.response.detail[1].kind = "unsupported_format"
          /\ last.response.detail[1].ext = ExtensionOf(last.files[1])

\* C2, amended: as C2_Original, except that the empty name is answered with a
\* 400 whose message says that no file name was given.
C2_Validation ==
    /\ \A t \in Tasks : InFlight(t) =>
          /\ ExtensionOf(task[t].files[1]) \in ALLOWED_EXTENSIONS
          /\ task[t].file_ext = ExtensionOf(task[t].files[1])
    /\ Rejected(last) =>
          /\ ExtensionOf(last.files[1]) \notin ALLOWED_EXTENSIONS
          /\ last.files[1] # <<>> =>
                /\ last.response.detail[1].kind = "unsupported_format"
                /\ last.response.detail[1].ext = ExtensionOf(last.files[1])
          /\ last.files[1] = <<>> =>
                last.response.detail[1].kind = "no_filename"

\* a.png.exe was rejected naming .exe, and a.PNG is being processed as .png.
C2_Witness ==
    /\ Rejected(last)
    /\ last.files[1] = <<"a", ".", "p", "n", "g", ".", "e", "x", "e">>
    /\ last.response.detail[1].ext = <<".", "e", "x", "e">>
    /\ InFlight("t1")
    /\ task["t1"].files[1] = <<"a", ".", "P", "N", "G">>
    /\ task["t1"].file_ext = <<".", "p", "n", "g">>

BatchDone(step) == step.endpoint = "batch" /\ step.response.status # 0

\* C3: a batch always ends with its response, whatever happened to its items:
\* total is the number of files, there is one entry per file in upload order,
\* processed counts the successful entries, a failed entry has success false
\* and an error, and a successful entry has the file's OCR payload.
C3_BatchIsolation ==
    BatchDone(last) =>
        /\ last.response.status = 200
        /\ LET body == last.response.body[1]
               files == last.files
           IN  /\ body.total = Len(files)
               /\ Len(body.results) = Len(files)
               /\ body.processed =
                     Cardinality({i \in 1..Len(body.results) : body.results[i].success})
               /\ \A i \in 1..Len(body.results) :
                     LET e == body.results[i]
                     IN  /\ e.filename = files[i]
                         /\ ~validate_file(files[i]).valid => ~e.success
                         /\ IF e.success
                            THEN /\ Len(e.error) = 0
                                 /\ Len(e.data) = 1
                                 /\ e.data[1].success
                                 /\ e.data[1].filename = files[i]
                                 /\ e.data[1].results =
                                       [k \in 1..Len(e.data[1].results) |->
                                           NormalizeResult(ScanResult)[k]]
                            ELSE /\ Len(e.data) = 0
                                 /\ Len(e.error) = 1

\* Three files of which the second failed in the adapter: total 3, processed 2.
C3_Witness ==
    /\ BatchDone(last)
    /\ Len(last.files) = 3
    /\ LET body == last.response.body[1]
       IN  /\ body.total = 3
           /\ body.processed = 2
           /\ body.results[1].success
           /\ ~body.results[2].success
           /\ body.results[2].error[1].cause = "PredictError"
           /\ body.results[3].success

\* C4: each engine is constructed at most once, and only by an access that
\* finds none; every access gets the one instance, constructed or found.
C4_Singletons ==
    /\ ocr_instances <= 1
    /\ structure_instances <= 1
    /\ ocr_engine \in {EngineNone, 1}
    /\ structure_engine \in {EngineNone, EngineFalse, 1}
    /\ (ocr_engine = EngineNone) <=> (ocr_instances = 0)
    /\ (structure_engine \in {EngineNone, EngineFalse}) <=> (structure_instances = 0)
    /\ last.trace.ocr_used \subseteq {ocr_engine}
    /\ last.trace.structure_used \subseteq {structure_engine}

\* A step that used both engines and constructed neither.
C4_Witness ==
    /\ last.trace.ocr_used = {1}
    /\ last.trace.built = {}
    /\ structure_engine = 1
    /\ ocr_instances = 1
    /\ structure_instances = 1
    /\ \E t \in Tasks : InFlight(t)

\* C5: a failed initialisation of the structure engine sets the fallback flag
\* and sends the request through the page fallback, and a failed
\* initialisation of the OCR engine fails the /api/ocr or /api/ocr/table
\* request that triggered it with a 500.
C5_GracefulDegradation ==
    /\ last.trace.structure_init_failed =>
          /\ structure_engine = EngineFalse
          /\ last.trace.routes = {"fallback"}
    /\ (IsFileStep(last) /\ last.endpoint # "batch" /\ last.trace.ocr_init_failed) =>
          last.response.status = 500

\* C8: requests in flight hold different scratch paths, a step touches no
\* path but its own, and so never the path of a request still in flight.
C8_NoCollision ==
    /\ \A t1, t2 \in Tasks : t1 # t2 /\ InFlight(t1) /\ InFlight(t2) => PathOf(t1) # PathOf(t2)
    /\ IsFileStep(last) => Touched(last) \subseteq {last.path[1]}
    /\ \A t \in Tasks : InFlight(t) => PathOf(t) \notin Touched(last)

\* The second request wrote and removed its file while the first was suspended.
C8_Witness ==
    /\ \E t \in Tasks : InFlight(t) /\ task[t].file_id = 1
    /\ IsFileStep(last)
    /\ last.path[1][1] = 2
    /\ last.trace.written = {last.path[1]}
    /\ last.trace.deleted = {last.path[1]}

\* C10: no per-page temporary image outlives the call of process_pdf_ocr that
\* created it.
C10_PageFilesRemoved ==
    /\ tmp_files = {}
    /\ \A f \in last.trace.tmp_created : f \notin tmp_files

TableReturned == table_call.pc = "return"

\* The characters c over all lines, counted one by one.
Occurrences(lines, c) ==
    Cardinality(UNION {{<<i, j>> : j \in {k \in 1..Len(lines[i]) : lines[i][k] = c}} :
                          i \in 1..Len(lines)})

\* C6: with delimiter 'auto', over the non-empty lines: tab splitting if the
\* tabs number more than half the lines, else comma splitting if the commas
\* do, else the multi-space strategy; lines that all hold a tab and no comma
\* select tab; the three lines of the scenario give 3 rows and 3 columns.
C6_AutoDetection ==
    (TableReturned /\ table_call.delimiter = "auto") =>
        LET lines == SelectSeq(table_call.texts, NonEmpty)
            n == Len(lines)
            tabs == Occurrences(lines, "\t")
            commas == Occurrences(lines, ",")
            chosen == table_call.out.delimiter
        IN  /\ n > 0 =>
                /\ (2 * tabs > n) => chosen = "\t"
                /\ (2 * tabs <= n /\ 2 * commas > n) => chosen = ","
                /\ (2 * tabs <= n /\ 2 * commas <= n) => chosen = "space"
                /\ ((\A i \in 1..n : \E k \in 1..Len(lines[i]) : lines[i][k] = "\t")
                        /\ commas = 0) => chosen = "\t"
            /\ table_call.texts = Scenario =>
                /\ chosen = "\t"
                /\ table_call.out.row_count = 3
                /\ table_call.out.col_count = 3

\* Two lines with one tab (not more than half) and two commas: comma is chosen.
C6_Witness ==
    /\ TableReturned
    /\ table_call.delimiter = "auto"
    /\ Len(table_call.texts) = 2
    /\ Occurrences(table_call.texts, "\t") = 1
    /\ Occurrences(table_call.texts, ",") = 2
    /\ table_call.out.delimiter = ","
    /\ table_call.out.col_count = 2

\* The cells each non-empty line yields under the delimiter the call resolved.
YieldedCells ==
    LET lines == SelectSeq(table_call.texts, NonEmpty)
    IN  [i \in 1..Len(lines) |-> LineCells(lines[i], table_call.out.delimiter)]

\* C7: the grid is rectangular: every row has col_count cells, col_count is
\* the largest number of cells a line yields, every row is the cells of its
\* line followed by empty cells, row_count is the number of lines that yield
\* a cell, and the outputs are ("", "", 0, 0) exactly when no line yields one.
C7_RectangularGrid ==
    TableReturned =>
        LET out == table_call.out
            yielding == SelectSeq(YieldedCells, NonEmpty)
            empty == /\ out.csv_content = <<>> /\ out.markdown_table = <<>>
                     /\ out.row_count = 0 /\ out.col_count = 0
        IN  /\ out.row_count = Len(yielding)
            /\ Len(out.table_data) = out.row_count
            /\ empty <=> (yielding = <<>>)
            /\ yielding # <<>> =>
                  /\ out.csv_content # <<>>
                  /\ out.markdown_table # <<>>
                  /\ out.col_count = Max({Len(yielding[r]) : r \in 1..Len(yielding)})
            /\ \A r \in 1..Len(out.table_data) :
                  LET row == out.table_data[r]
                  IN  /\ Len(row) = out.col_count
                      /\ SubSeq(row, 1, Len(yielding[r])) = yielding[r]
                      /\ \A c \in (Len(yielding[r]) + 1)..Len(row) : row[c] = <<>>

\* A line of three cells and a line of one cell, padded with two empty cells.
C7_Witness ==
    /\ TableReturned
    /\ table_call.out.row_count = 2
    /\ table_call.out.col_count = 3
    /\ table_call.out.table_data[2] = << <<"a">>, <<>>, <<>> >>

\* C9: for one record with parallel arrays, the items are the non-empty texts
\* in order, each with the score at its index (1.0 where the score array is
\* shorter) and the geometry at its index (empty where there is none).
C9_Normalization ==
    (/\ image_call.pc = "return"
     /\ Len(image_call.result) = 1
     /\ image_call.result[1].shape \in {"rec_attr", "rec_dict"}) =>
        LET res == image_call.result[1]
            Kept(i) == res.texts[i] # <<>>
            keep == SelectSeq([i \in 1..Len(res.texts) |-> i], Kept)
            out == image_call.out
        IN  /\ Len(out) = Len(keep)
            /\ \A k \in 1..Len(keep) :
                  LET i == keep[k]
                  IN  /\ out[k].text = res.texts[i]
                      /\ out[k].confidence =
                            (IF res.scores # <<>> /\ i <= Len(res.scores[1])
                             THEN res.scores[1][i] ELSE DefaultScore)
                      /\ out[k].bbox =
                            (IF res.polys # <<>> /\ i <= Len(res.polys[1])
                             THEN res.polys[1][i].pts ELSE <<>>)

====
